---- MODULE Spec2Model ----
(***************************************************************************)
(* Product agent: the regex classifier (MockLLM), the three-stage pipeline *)
(* parse_request -> execute_tools -> format_response (ProductAgent), the   *)
(* helper tools and the in-memory catalog store of the MCP server.         *)
(*                                                                         *)
(* Texts.  A query is the sequence of its whitespace-separated words; the  *)
(* string is the words joined by single blanks.  Words are written in      *)
(* Latin transliteration: dobav = "dobav'" (add), tovar (product/item),    *)
(* statistika, skidka (discount), pokazhi (show), kategorii / kategoriya   *)
(* (category), cena (price), net v nalichii (out of stock), Mebel and      *)
(* Elektronika (the seed categories).  A product name is a sequence of     *)
(* words as well.                                                          *)
(*                                                                         *)
(* Numbers.  Prices and money amounts are fixed-point numbers counted in   *)
(* hundredths (50000.00 is 5000000); percents are whole numbers.           *)
(***************************************************************************)
EXTENDS Integers, Sequences, FiniteSets, TLC

VARIABLES
    products,      \* server.py  _products: the in-memory catalog
    file,          \* server.py  DATA_FILE: <<>> is no file, <<ps>> holds ps
    first,         \* what an earlier process_query of the same query returned
    rows,          \* database.py  the rows of the table products, by id
    llm,           \* self.llm  the classifier of the agent
    suspended,     \* the RequestStates of the process_query calls that wait
    pc,            \* position of the running entry point
    query,         \* AgentState["query"]
    parse_result,  \* AgentState["parse_result"]: <<>> is None, <<r>> is r
    tool_results,  \* AgentState["tool_results"]: tool name -> result
    response,      \* AgentState["response"]: NoText or a mapping key -> value
    tools_used,    \* AgentState["tools_used"]
    error,         \* AgentState["error"]: <<>> is None, <<m>> is message m
    call,          \* a direct tool call: the tool and its arguments
    ret            \* what the direct tool call returned

vars == <<products, file, first, rows, llm, suspended, pc, query, parse_result, tool_results,
          response, tools_used, error, call, ret>>

request == <<query, parse_result, tool_results, response, tools_used, error>>

-----------------------------------------------------------------------------
(* Bounds of the model *)

MaxQueryLen == 4
MaxProducts == 4
MaxCalls == 2
MaxRequests == 2

-----------------------------------------------------------------------------
(* Words, letter case and numerals *)

\* A numeral of 4301 digits: int() refuses it (CPython's limit on the
\* digits of an integer string is 4300), float() makes it inf.
HugeNumber == "9999(4301 digits)"

Words == {"dobav", "tovar", "statistika", "skidka", "15%", "150%", "id",
          "1", HugeNumber, "pokazhi", "kategorii", "Mebel"}

None == <<>>

\* What a direct call leaves when it raised instead of returning
Raised == <<"raised">>

\* The value a call returned
Return(x) == <<"returned", x>>

EmptyDict == <<>>

\* The text "" (of no characters) that initial_state gives response
NoText == <<>>

Some(x) == <<x>>

Min(S) == CHOOSE x \in S : \A y \in S : x <= y

\* IEEE infinity, written as a number above every amount of the model.
Infinity == 10 ^ 12

\* str.lower() of one word
LowerWord(w) ==
    CASE w \in {"Mebel", "MEBEL"} -> "mebel"
      [] w \in {"Elektronika", "ELEKTRONIKA"} -> "elektronika"
      [] w = "Knigi" -> "knigi"
      [] w = "Kat" -> "kat"
      [] w = "ID" -> "id"
      [] w = "Tovar" -> "tovar"
      [] OTHER -> w

\* str.lower() of a text
Lower(q) == [i \in 1..Len(q) |-> LowerWord(q[i])]

\* The digits a word starts with ("" when it starts with none): what (\d+)
\* matches at the start of the word.
LeadingDigits(w) ==
    CASE w = "15%" -> "15"
      [] w = "150%" -> "150"
      [] w \in {"1", "2", "100", HugeNumber} -> w
      [] OTHER -> ""

\* The word characters a word starts with: what (\w+) matches there.
LeadingWordChars(w) ==
    CASE w = "15%" -> "15"
      [] w = "150%" -> "150"
      [] OTHER -> w

\* The whole word is \d+ followed by %
IsPercentWord(w) == w \in {"15%", "150%"}

NumeralValue(d) ==
    CASE d = "1" -> 1
      [] d = "2" -> 2
      [] d = "15" -> 15
      [] d = "100" -> 100
      [] d = "150" -> 150

IntLimitMessage == <<"Exceeds the limit (4300 digits) for integer string conversion">>

\* int(d): the number, or the ValueError's message
IntOf(d) ==
    IF d = HugeNumber THEN [exception |-> IntLimitMessage]
    ELSE [value |-> NumeralValue(d)]

\* float(d)
FloatOf(d) == IF d = HugeNumber THEN Infinity ELSE NumeralValue(d)

-----------------------------------------------------------------------------
(* MockLLM: the rule table and re.search on the lower-cased query *)

ToolCall(name, arguments) == [tool_name |-> name, arguments |-> arguments]

ParseResult(calls, template) ==
    [tool_calls |-> calls, response_template |-> template]

\* Mutant of patterns: the statistics rule moved in front of the add rule
patternsStatisticsFirst ==
    <<"statistics", "add_product", "discount", "get_product_with_id",
      "get_product_simple", "list_with_category", "category", "list_all">>

\* The rule table of MockLLM.__init__, in its order.
patterns == <<"add_product", "statistics", "discount", "get_product_with_id",
              "get_product_simple", "list_with_category", "category",
              "list_all">>

\* re.search(pattern, s): the positions (word indexes) at which the pattern
\* matches the lower-cased text s.  re.search takes the leftmost one.
MatchStarts(rule, s) ==
    LET n == Len(s) IN
    CASE rule = "add_product" ->
             \* (dobav|sozdaj)\w*\s*.*(produkt|tovar)
             {i \in 1..n : /\ s[i] = "dobav"
                           /\ \E j \in (i + 1)..n : s[j] = "tovar"}
      [] rule = "statistics" ->
             \* (statistik|sredn\w* cen|skol'ko tovarov|skol'ko produktov)
             {i \in 1..n : s[i] = "statistika"}
      [] rule = "discount" ->
             \* skidk\w*\s*(\d+)\s*%.*?(?:id|ID|Id)\s*(\d+)
             {i \in 1..n : /\ s[i] = "skidka"
                           /\ i + 1 <= n
                           /\ IsPercentWord(s[i + 1])
                           /\ \E k \in (i + 2)..(n - 1) :
                                  s[k] = "id" /\ LeadingDigits(s[k + 1]) # ""}
      [] rule = "get_product_with_id" ->
             \* (pokazhi|najdi|informaci\w*|daj)\s*(o\s*)?(produkt|tovar)\w*\s*(id|ID|Id)\s*[=:]?\s*(\d+)
             {i \in 1..n : /\ i + 3 <= n
                           /\ s[i] = "pokazhi"
                           /\ s[i + 1] = "tovar"
                           /\ s[i + 2] = "id"
                           /\ LeadingDigits(s[i + 3]) # ""}
      [] rule = "get_product_simple" ->
             \* (produkt|tovar)\s+(id|ID|Id)\s*[=:]?\s*(\d+)
             {i \in 1..n : /\ i + 2 <= n
                           /\ s[i] = "tovar"
                           /\ s[i + 1] = "id"
                           /\ LeadingDigits(s[i + 2]) # ""}
      [] rule = "list_with_category" ->
             \* (pokazhi|spisok|vse)\s*(produkt|tovar)\w*\s*(kategorii|iz kategorii|v kategorii)\s+["']?(\w+)["']?
             {i \in 1..n : /\ i + 3 <= n
                           /\ s[i] = "pokazhi"
                           /\ s[i + 1] = "tovar"
                           /\ s[i + 2] = "kategorii"}
      [] rule = "category" ->
             \* (kategori\w*)\s+["']?(\w+)["']?
             {i \in 1..n : /\ i + 1 <= n
                           /\ s[i] \in {"kategorii", "kategoriya"}}
      [] rule = "list_all" ->
             \* (pokazhi|spisok|vse|vyvesti)\s*(produkt|tovar)
             {i \in 1..n : /\ i + 1 <= n
                           /\ s[i] = "pokazhi"
                           /\ s[i + 1] = "tovar"}

Matches(rule, s) == MatchStarts(rule, s) # {}

_parse_statistics(s, q) ==
    ParseResult(<<ToolCall("get_statistics", EmptyDict)>>,
                <<"Statistika po produktam">>)

_parse_list_with_category(s, q) ==
    LET i == Min(MatchStarts("list_with_category", s))
        category == LeadingWordChars(s[i + 3])
    IN  IF category # ""
        THEN ParseResult(
                 <<ToolCall("list_products", [category |-> category])>>,
                 <<"Produkty v kategorii", category>>)
        ELSE ParseResult(<<ToolCall("list_products", EmptyDict)>>,
                         <<"Spisok vseh produktov">>)

_parse_category(s, q) ==
    LET i == Min(MatchStarts("category", s))
        category == LeadingWordChars(s[i + 1])
    IN  ParseResult(<<ToolCall("list_products", [category |-> category])>>,
                    <<"Produkty v kategorii", category>>)

_parse_get_product_with_id(s, q) ==
    LET i == Min(MatchStarts("get_product_with_id", s))
        product_id == IntOf(LeadingDigits(s[i + 3]))
    IN  IF "exception" \in DOMAIN product_id THEN product_id
        ELSE ParseResult(
                 <<ToolCall("get_product", [product_id |-> product_id.value])>>,
                 <<"Informaciya o produkte">>)

_parse_get_product_simple(s, q) ==
    LET i == Min(MatchStarts("get_product_simple", s))
        product_id == IntOf(LeadingDigits(s[i + 2]))
    IN  IF "exception" \in DOMAIN product_id THEN product_id
        ELSE ParseResult(
                 <<ToolCall("get_product", [product_id |-> product_id.value])>>,
                 <<"Informaciya o produkte">>)

_parse_discount(s, q) ==
    LET i == Min(MatchStarts("discount", s))
        \* .*? is lazy: the first "id" that digits follow
        k == Min({j \in (i + 2)..(Len(s) - 1) :
                      s[j] = "id" /\ LeadingDigits(s[j + 1]) # ""})
        percent == FloatOf(LeadingDigits(s[i + 1]))
        product_id == IntOf(LeadingDigits(s[k + 1]))
    IN  IF "exception" \in DOMAIN product_id THEN product_id
        ELSE ParseResult(
                 <<ToolCall("get_product", [product_id |-> product_id.value]),
                   ToolCall("calculate_discount", [percent |-> percent])>>,
                 <<"Raschet skidki">>)

_parse_list_all(s, q) ==
    ParseResult(<<ToolCall("list_products", EmptyDict)>>,
                <<"Spisok vseh produktov">>)

_parse_add_product(s, q) ==
    LET n == Len(q)
        \* (?:produkt|tovar)[:\s]+([^,]+), re.IGNORECASE, on the query itself
        nameAt == {i \in 1..(n - 1) : LowerWord(q[i]) = "tovar"}
        name == IF nameAt # {} THEN SubSeq(q, Min(nameAt) + 1, n)
                ELSE <<"Novyj", "produkt">>
        \* cena\s*[=:]*\s*(\d+)
        priceAt == {i \in 1..(n - 1) : /\ LowerWord(q[i]) = "cena"
                                       /\ LeadingDigits(q[i + 1]) # ""}
        price == IF priceAt # {}
                 THEN LET f == FloatOf(LeadingDigits(q[Min(priceAt) + 1]))
                      IN  IF f = Infinity THEN Infinity ELSE 100 * f
                 ELSE 0
        \* kategoriya\s*[=:]*\s*(\w+)
        catAt == {i \in 1..(n - 1) : LowerWord(q[i]) = "kategoriya"}
        category == IF catAt # {} THEN LeadingWordChars(q[Min(catAt) + 1])
                    ELSE "Bez kategorii"
        \* "net v nalichii" not in query.lower()
        in_stock == ~ \E i \in 1..(n - 2) :
                        s[i] = "net" /\ s[i + 1] = "v" /\ s[i + 2] = "nalichii"
    IN  ParseResult(
            <<ToolCall("add_product",
                       [name |-> name, price |-> price,
                        category |-> category, in_stock |-> in_stock])>>,
            <<"Produkt dobavlen">>)

\* parser_func(match, query) of the rule
Handler(rule, s, q) ==
    CASE rule = "add_product" -> _parse_add_product(s, q)
      [] rule = "statistics" -> _parse_statistics(s, q)
      [] rule = "discount" -> _parse_discount(s, q)
      [] rule = "get_product_with_id" -> _parse_get_product_with_id(s, q)
      [] rule = "get_product_simple" -> _parse_get_product_simple(s, q)
      [] rule = "list_with_category" -> _parse_list_with_category(s, q)
      [] rule = "category" -> _parse_category(s, q)
      [] rule = "list_all" -> _parse_list_all(s, q)

\* Mutant of DefaultParseResult: no call at all
DefaultParseResultNoCall == ParseResult(<<>>, <<"Vot spisok produktov">>)

DefaultParseResult ==
    ParseResult(<<ToolCall("list_products", EmptyDict)>>,
                <<"Vot spisok produktov">>)

\* MockLLM.parse: the first rule of the table whose pattern matches decides
parse(q) ==
    LET query_lower == Lower(q)
        matching == {r \in 1..Len(patterns) : Matches(patterns[r], query_lower)}
    IN  IF matching # {}
        THEN Handler(patterns[Min(matching)], query_lower, q)
        ELSE DefaultParseResult

-----------------------------------------------------------------------------
(* MCP server: the tools over the in-memory list _products *)

\* The three seed products (the data the tests reset the store to).
SeedProducts ==
    << [id |-> 1, name |-> <<"Noutbuk">>, price |-> 5000000,
        category |-> "Elektronika", in_stock |-> TRUE],
       [id |-> 2, name |-> <<"Smartfon">>, price |-> 3000000,
        category |-> "Elektronika", in_stock |-> TRUE],
       [id |-> 3, name |-> <<"Stol">>, price |-> 1500000,
        category |-> "Mebel", in_stock |-> FALSE] >>

\* load_products(): the data file's products, or [] when there is no file
load_products(data_file) == IF data_file # None THEN data_file[1] ELSE <<>>

\* save_products(products): the file holds the products, unless the file
\* cannot be opened for writing (the exception leaves the file as it was)
save_products(data_file, ps, saveOk) == IF saveOk THEN Some(ps) ELSE data_file

\* reset_products(): _products = load_products()
reset_products(data_file) == load_products(data_file)

RECURSIVE SumPrices(_)
SumPrices(ps) ==
    IF ps = <<>> THEN 0 ELSE ps[1].price + SumPrices(Tail(ps))

Max(S) == CHOOSE x \in S : \A y \in S : x >= y

\* round(num / den, 2) in hundredths, num and den >= 0 counted so that
\* num / den is a number of hundredths.  A value exactly half way between
\* two hundredths goes to the one the binary float happens to be nearer to:
\* either of them (tieUp).
RoundDiv(num, den, tieUp) ==
    LET quot == num \div den
        rest == num % den
    IN  IF 2 * rest < den THEN quot
        ELSE IF 2 * rest > den THEN quot + 1
        ELSE IF tieUp THEN quot + 1 ELSE quot

\* True when the argument is given and is a true value (not None, not "")
Given(arguments, key) == key \in DOMAIN arguments /\ arguments[key] # ""

list_products(ps, arguments) ==
    IF Given(arguments, "category")
    THEN SelectSeq(ps, LAMBDA p :
             LowerWord(p.category) = LowerWord(arguments.category))
    ELSE ps

\* Mutant of get_product: when no product matches, the product the loop
\* looked at last is returned
get_productLast(ps, arguments) ==
    LET product_id == arguments.product_id
        found == {i \in 1..Len(ps) : ps[i].id = product_id}
    IN  IF found # {} THEN ps[Min(found)]
        ELSE IF ps # <<>> THEN ps[Len(ps)]
        ELSE [error |-> <<"Product with ID", product_id, "not found">>]

get_product(ps, arguments) ==
    LET product_id == arguments.product_id
        found == {i \in 1..Len(ps) : ps[i].id = product_id}
    IN  IF found # {} THEN ps[Min(found)]
        ELSE [error |-> <<"Product with ID", product_id, "not found">>]

\* Mutant of new_product: the new id is the largest id in use
new_productSameId(ps, arguments) ==
    LET new_id == IF ps = <<>> THEN 0
                  ELSE Max({ps[i].id : i \in 1..Len(ps)})
    IN  [id |-> new_id,
         name |-> arguments.name,
         price |-> arguments.price,
         category |-> arguments.category,
         in_stock |-> IF "in_stock" \in DOMAIN arguments
                      THEN arguments.in_stock ELSE TRUE]

\* The product add_product builds; in_stock defaults to True.
new_product(ps, arguments) ==
    LET new_id == (IF ps = <<>> THEN 0
                   ELSE Max({ps[i].id : i \in 1..Len(ps)})) + 1
    IN  [id |-> new_id,
         name |-> arguments.name,
         price |-> arguments.price,
         category |-> arguments.category,
         in_stock |-> IF "in_stock" \in DOMAIN arguments
                      THEN arguments.in_stock ELSE TRUE]

\* add_product: the product is appended to _products, then save_products
\* writes the data file; when the write fails (raised) the exception leaves
\* add_product with the product already appended.
add_product(ps, data_file, arguments, saveOk) ==
    LET p == new_product(ps, arguments)
    IN  [products |-> Append(ps, p),
         file |-> save_products(data_file, Append(ps, p), saveOk),
         result |-> p,
         raised |-> ~saveOk]

\* Mutant of get_statistics: the average is cut to 2 decimals, not rounded
get_statisticsTruncated(ps, tieUp) ==
    IF ps = <<>>
    THEN [total_count |-> 0, average_price |-> 0, in_stock_count |-> 0,
          categories |-> EmptyDict]
    ELSE LET total_count == Len(ps)
             cats == {ps[i].category : i \in 1..Len(ps)}
         IN  [total_count |-> total_count,
              average_price |-> SumPrices(ps) \div total_count,
              in_stock_count |->
                  Cardinality({i \in 1..Len(ps) : ps[i].in_stock}),
              categories |->
                  [c \in cats |->
                      Cardinality({i \in 1..Len(ps) : ps[i].category = c})]]

get_statistics(ps, tieUp) ==
    IF ps = <<>>
    THEN [total_count |-> 0, average_price |-> 0, in_stock_count |-> 0,
          categories |-> EmptyDict]
    ELSE LET total_count == Len(ps)
             cats == {ps[i].category : i \in 1..Len(ps)}
         IN  [total_count |-> total_count,
              average_price |-> RoundDiv(SumPrices(ps), total_count, tieUp),
              in_stock_count |->
                  Cardinality({i \in 1..Len(ps) : ps[i].in_stock}),
              categories |->
                  [c \in cats |->
                      Cardinality({i \in 1..Len(ps) : ps[i].category = c})]]

-----------------------------------------------------------------------------
(* database.py: the operations on the table products *)

\* SELECT * FROM products WHERE id = ?: the row as a dict, or None
get_product_by_id(table, product_id) ==
    LET found == {i \in 1..Len(table) : table[i].id = product_id}
    IN  IF found # {} THEN Some(table[Min(found)]) ELSE None

allowed_fields == {"name", "price", "category", "in_stock"}

\* Mutant of update_product: the UPDATE has no WHERE clause
update_productEveryRow(table, product_id, kwargs) ==
    LET updates == [k \in DOMAIN kwargs \cap allowed_fields |-> kwargs[k]]
        Set(row) == [k \in DOMAIN row |->
                        IF k \in DOMAIN updates THEN updates[k] ELSE row[k]]
        updated == [i \in 1..Len(table) |-> Set(table[i])]
    IN  IF DOMAIN updates = {}
        THEN [table |-> table, result |-> get_product_by_id(table, product_id)]
        ELSE IF ~\E i \in 1..Len(table) : table[i].id = product_id
        THEN [table |-> table, result |-> None]
        ELSE [table |-> updated,
              result |-> get_product_by_id(updated, product_id)]

\* update_product(product_id, **kwargs): the table after it, and the
\* updated row or None
update_product(table, product_id, kwargs) ==
    LET updates == [k \in DOMAIN kwargs \cap allowed_fields |-> kwargs[k]]
        Set(row) == [k \in DOMAIN row |->
                        IF k \in DOMAIN updates THEN updates[k] ELSE row[k]]
        \* UPDATE products SET ... WHERE id = ?
        updated == [i \in 1..Len(table) |->
                       IF table[i].id = product_id THEN Set(table[i])
                       ELSE table[i]]
        rowcount == Cardinality({i \in 1..Len(table) :
                                    table[i].id = product_id})
    IN  IF DOMAIN updates = {}
        THEN [table |-> table, result |-> get_product_by_id(table, product_id)]
        ELSE IF rowcount = 0
        THEN [table |-> table, result |-> None]
        ELSE [table |-> updated,
              result |-> get_product_by_id(updated, product_id)]

\* Mutant of delete_product: the rows up to the given id are deleted
delete_productUpTo(table, product_id) ==
    [table |-> SelectSeq(table, LAMBDA row : row.id > product_id),
     result |-> \E i \in 1..Len(table) : table[i].id = product_id]

\* delete_product(product_id): the table after it, and rowcount > 0
delete_product(table, product_id) ==
    [table |-> SelectSeq(table, LAMBDA row : row.id # product_id),
     result |-> \E i \in 1..Len(table) : table[i].id = product_id]

\* The MCP tools over the table: a row that is not found is reported as an
\* error object, a deletion as {success: true}.
server_get_product(table, arguments) ==
    LET row == get_product_by_id(table, arguments.product_id)
    IN  [table |-> table,
         result |-> IF row # None THEN row[1]
                    ELSE [error |-> <<"Product with ID", arguments.product_id,
                                      "not found">>]]

server_update_product(table, arguments) ==
    LET r == update_product(table, arguments.product_id, arguments.fields)
    IN  [table |-> r.table,
         result |-> IF r.result # None THEN r.result[1]
                    ELSE [error |-> <<"Product with ID", arguments.product_id,
                                      "not found">>]]

server_delete_product(table, arguments) ==
    LET r == delete_product(table, arguments.product_id)
    IN  [table |-> r.table,
         result |-> IF r.result THEN [success |-> TRUE]
                    ELSE [error |-> <<"Product with ID", arguments.product_id,
                                      "not found">>]]

-----------------------------------------------------------------------------
(* tools.py: the helper tools *)

\* Mutant of calculate_discount: the bounds 0 and 100 are refused
calculate_discountStrict(price, percent, tieUp1, tieUp2) ==
    IF percent <= 0 \/ percent >= 100
    THEN [error |-> <<"Discount percentage must be between 0 and 100">>]
    ELSE [original_price |-> price,
          discount_percent |-> percent,
          discount_amount |-> RoundDiv(price * percent, 100, tieUp1),
          final_price |-> RoundDiv(price * (100 - percent), 100, tieUp2)]

calculate_discount(price, percent, tieUp1, tieUp2) ==
    IF percent < 0 \/ percent > 100
    THEN [error |-> <<"Discount percentage must be between 0 and 100">>]
    ELSE [original_price |-> price,
          discount_percent |-> percent,
          discount_amount |-> RoundDiv(price * percent, 100, tieUp1),
          final_price |-> RoundDiv(price * (100 - percent), 100, tieUp2)]

\* f"{amount}": the decimal text of the amount
format_price(amount) == <<"text of", amount>>

\* Mutant of format_product_list: a product without in_stock is shown as
\* in stock
format_product_listInStock(ps) ==
    IF ps = <<>> THEN <<>>
    ELSE [i \in 1..Len(ps) |->
             [id |-> ps[i].id,
              name |-> ps[i].name,
              price |-> ps[i].price,
              category |-> ps[i].category,
              in_stock |-> IF "in_stock" \in DOMAIN ps[i]
                           THEN ps[i].in_stock ELSE TRUE]]

format_product_list(ps) ==
    IF ps = <<>> THEN <<>>
    ELSE [i \in 1..Len(ps) |->
             [id |-> ps[i].id,
              name |-> ps[i].name,
              price |-> ps[i].price,
              category |-> ps[i].category,
              in_stock |-> IF "in_stock" \in DOMAIN ps[i]
                           THEN ps[i].in_stock ELSE FALSE]]

format_statistics(stats) == stats

-----------------------------------------------------------------------------
(* ProductAgent: the three nodes of the graph *)

\* A Python dict whose iteration order matters: the keys in insertion order.
EmptyResults == [keys |-> <<>>, vals |-> <<>>]

Range(seq) == {seq[i] : i \in 1..Len(seq)}

\* d[k] = v
DictPut(d, k, v) ==
    [keys |-> IF k \in Range(d.keys) THEN d.keys ELSE Append(d.keys, k),
     vals |-> (k :> v) @@ d.vals]

\* Mutant of Truthy: the error is never seen
TruthyNever(e) == FALSE

\* bool(state.get("error")): None and "" are false
Truthy(e) == e # None /\ e[1] # <<>>

\* What the environment decides during one run of execute_tools: whether
\* the data file can be written, and the way each round() resolves a tie.
Outcomes(tool_calls) ==
    LET names == {tool_calls[i].tool_name : i \in 1..Len(tool_calls)}
        Choice(name) == IF name \in names THEN BOOLEAN ELSE {TRUE}
    IN  [saveOk : Choice("add_product"),
         tieUp1 : Choice("calculate_discount"),
         tieUp2 : Choice("calculate_discount"),
         tieUp3 : Choice("get_statistics")]

\* Mutant of _call_mcp_tool: a tool that is not in tool_map raises KeyError
_call_mcp_toolKeyError(st, tool_name, arguments, env) ==
    CASE tool_name = "list_products" ->
             [st EXCEPT !.result = list_products(st.products, arguments)]
      [] tool_name = "get_product" ->
             [st EXCEPT !.result = get_product(st.products, arguments)]
      [] tool_name = "add_product" ->
             LET r == add_product(st.products, st.file, arguments, env.saveOk)
             IN  [st EXCEPT !.products = r.products, !.file = r.file,
                            !.result = r.result, !.raised = r.raised]
      [] tool_name = "get_statistics" ->
             [st EXCEPT !.result = get_statistics(st.products, env.tieUp3)]
      [] OTHER ->
             [st EXCEPT !.raised = TRUE]

\* Mutant of _call_mcp_tool: get_product takes the product out of the store
_call_mcp_toolTaking(st, tool_name, arguments, env) ==
    CASE tool_name = "list_products" ->
             [st EXCEPT !.result = list_products(st.products, arguments)]
      [] tool_name = "get_product" ->
             [st EXCEPT !.result = get_product(st.products, arguments),
                        !.products = SelectSeq(st.products,
                            LAMBDA p : p.id # arguments.product_id)]
      [] tool_name = "add_product" ->
             LET r == add_product(st.products, st.file, arguments, env.saveOk)
             IN  [st EXCEPT !.products = r.products, !.file = r.file,
                            !.result = r.result, !.raised = r.raised]
      [] tool_name = "get_statistics" ->
             [st EXCEPT !.result = get_statistics(st.products, env.tieUp3)]
      [] OTHER ->
             [st EXCEPT !.result = [error |-> <<"Unknown tool:", tool_name>>]]

_call_mcp_tool(st, tool_name, arguments, env) ==
    CASE tool_name = "list_products" ->
             [st EXCEPT !.result = list_products(st.products, arguments)]
      [] tool_name = "get_product" ->
             [st EXCEPT !.result = get_product(st.products, arguments)]
      [] tool_name = "add_product" ->
             LET r == add_product(st.products, st.file, arguments, env.saveOk)
             IN  [st EXCEPT !.products = r.products, !.file = r.file,
                            !.result = r.result, !.raised = r.raised]
      [] tool_name = "get_statistics" ->
             [st EXCEPT !.result = get_statistics(st.products, env.tieUp3)]
      [] OTHER ->
             [st EXCEPT !.result = [error |-> <<"Unknown tool:", tool_name>>]]

\* Mutant of ExecuteToolCall: product_name is also written into
\* product_result, which is the dict of the product in the store
ExecuteToolCallAliased(st, tool_call, env) ==
    LET tool_name == tool_call.tool_name
        arguments == tool_call.arguments
        Put(s) == [s EXCEPT !.tool_results = DictPut(@, tool_name, s.result)]
    IN  CASE tool_name = "calculate_discount" ->
                 LET product_result ==
                         IF "get_product" \in Range(st.tool_results.keys)
                         THEN st.tool_results.vals["get_product"]
                         ELSE EmptyDict
                 IN  IF "price" \in DOMAIN product_result
                     THEN LET result == calculate_discount(
                                  product_result.price, arguments.percent,
                                  env.tieUp1, env.tieUp2)
                              product_name ==
                                  IF "name" \in DOMAIN product_result
                                  THEN product_result.name ELSE <<"Unknown">>
                              named == ("product_name" :> product_name)
                                           @@ product_result
                          IN  Put([st EXCEPT
                                  !.result =
                                      ("product_name" :> product_name)
                                      @@ result,
                                  !.products =
                                      [k \in 1..Len(st.products) |->
                                          IF st.products[k].id
                                                 = product_result.id
                                          THEN named ELSE st.products[k]]])
                     ELSE Put([st EXCEPT !.result =
                              [error |-> <<"Product not found for discount calculation">>]])
          [] tool_name = "format_price" ->
                 Put([st EXCEPT !.result = format_price(arguments.amount)])
          [] OTHER ->
                 LET after == _call_mcp_tool(st, tool_name, arguments, env)
                 IN  IF after.raised THEN after ELSE Put(after)

\* Mutant of ExecuteToolCall: product_result["price"] is read without the
\* test, and raises KeyError when there is no price
ExecuteToolCallKeyError(st, tool_call, env) ==
    LET tool_name == tool_call.tool_name
        arguments == tool_call.arguments
        Put(s) == [s EXCEPT !.tool_results = DictPut(@, tool_name, s.result)]
    IN  CASE tool_name = "calculate_discount" ->
                 LET product_result ==
                         IF "get_product" \in Range(st.tool_results.keys)
                         THEN st.tool_results.vals["get_product"]
                         ELSE EmptyDict
                 IN  IF "price" \in DOMAIN product_result
                     THEN LET result == calculate_discount(
                                  product_result.price, arguments.percent,
                                  env.tieUp1, env.tieUp2)
                              product_name ==
                                  IF "name" \in DOMAIN product_result
                                  THEN product_result.name ELSE <<"Unknown">>
                          IN  Put([st EXCEPT !.result =
                                  ("product_name" :> product_name) @@ result])
                     ELSE [st EXCEPT !.raised = TRUE]
          [] tool_name = "format_price" ->
                 Put([st EXCEPT !.result = format_price(arguments.amount)])
          [] OTHER ->
                 LET after == _call_mcp_tool(st, tool_name, arguments, env)
                 IN  IF after.raised THEN after ELSE Put(after)

\* One iteration of the loop of _execute_tools.  st holds tool_results, the
\* store, the result of the last call and whether an exception is on its way.
ExecuteToolCall(st, tool_call, env) ==
    LET tool_name == tool_call.tool_name
        arguments == tool_call.arguments
        Put(s) == [s EXCEPT !.tool_results = DictPut(@, tool_name, s.result)]
    IN  CASE tool_name = "calculate_discount" ->
                 LET product_result ==
                         IF "get_product" \in Range(st.tool_results.keys)
                         THEN st.tool_results.vals["get_product"]
                         ELSE EmptyDict
                 IN  IF "price" \in DOMAIN product_result
                     THEN LET result == calculate_discount(
                                  product_result.price, arguments.percent,
                                  env.tieUp1, env.tieUp2)
                              product_name ==
                                  IF "name" \in DOMAIN product_result
                                  THEN product_result.name ELSE <<"Unknown">>
                          IN  Put([st EXCEPT !.result =
                                  ("product_name" :> product_name) @@ result])
                     ELSE Put([st EXCEPT !.result =
                              [error |-> <<"Product not found for discount calculation">>]])
          [] tool_name = "format_price" ->
                 Put([st EXCEPT !.result = format_price(arguments.amount)])
          [] OTHER ->
                 LET after == _call_mcp_tool(st, tool_name, arguments, env)
                 IN  IF after.raised THEN after ELSE Put(after)

RECURSIVE RunToolCalls(_, _, _)
RunToolCalls(st, tool_calls, env) ==
    IF tool_calls = <<>> \/ st.raised THEN st
    ELSE RunToolCalls(ExecuteToolCall(st, Head(tool_calls), env),
                      Tail(tool_calls), env)

RECURSIVE FormatItems(_, _, _)
FormatItems(keys, vals, response_data) ==
    IF keys = <<>> THEN response_data
    ELSE LET tool_name == Head(keys)
             result == vals[tool_name]
             Set(k, v) == (k :> v) @@ response_data
             next ==
                 CASE tool_name = "list_products" ->
                          Set("products", format_product_list(result))
                   [] tool_name = "get_product" ->
                          IF "name" \in DOMAIN result
                          THEN Set("product", result)
                          ELSE Set("error",
                                   IF "error" \in DOMAIN result
                                   THEN result.error
                                   ELSE <<"Produkt ne najden">>)
                   [] tool_name = "get_statistics" ->
                          Set("statistics", format_statistics(result))
                   [] tool_name = "add_product" ->
                          Set("added_product", result)
                   [] tool_name = "calculate_discount" ->
                          Set("discount", result)
                   [] OTHER -> Set(tool_name, result)
         IN  FormatItems(Tail(keys), vals, next)

\* self.llm = MockLLM()
MockLLM == [name |-> "MockLLM"]

\* A classifier whose parse yields the given outcome for every query
StubLLM(outcome) == [name |-> "StubLLM", outcome |-> outcome]

\* self.llm.parse(state["query"])
llm_parse(classifier, q) ==
    IF classifier.name = "MockLLM" THEN parse(q) ELSE classifier.outcome

-----------------------------------------------------------------------------
(* Inputs *)

\* Every text of at most MaxQueryLen words
Queries == UNION {[1..n -> Words] : n \in 0..MaxQueryLen}

\* Direct calls of the helper tools
HelperCalls ==
    {ToolCall("calculate_discount", [price |-> p, percent |-> c]) :
        p \in {0, 1, 5, 15, 100000}, c \in {0 - 1, 0, 10, 15, 50, 100, 101, 150}}
    \cup {ToolCall("format_product_list", [products |-> ps]) :
        ps \in {<<>>, SeedProducts,
                << [id |-> 7, name |-> <<"Test">>, price |-> 100000,
                    category |-> "Kat"] >>,
                << SeedProducts[3],
                   [id |-> 7, name |-> <<"Test">>, price |-> 100000,
                    category |-> "Kat"] >>}}

\* Direct calls of the MCP tools
StoreCalls ==
    {ToolCall("list_products", a) :
        a \in {EmptyDict} \cup
              {[category |-> c] : c \in {"", "Mebel", "mebel", "MEBEL", "Knigi"}}}
    \cup {ToolCall("get_product", [product_id |-> i]) : i \in {1, 4}}
    \cup {ToolCall("get_statistics", EmptyDict)}
    \cup {ToolCall("reset_products", EmptyDict)}
    \cup {ToolCall("add_product", a) :
              a \in {[name |-> <<"Myshka">>, price |-> 1, category |-> "Mebel"],
                     [name |-> <<"Myshka">>, price |-> 30000,
                      category |-> "Mebel", in_stock |-> TRUE],
                     [name |-> <<"Kover">>, price |-> 1, category |-> "mebel",
                      in_stock |-> FALSE],
                     [name |-> <<"Kover">>, price |-> 30000,
                      category |-> "Knigi", in_stock |-> FALSE]}}

\* The queries of the requests whose stages are followed one by one
NodeQueries ==
    UNION {[1..n -> Words] : n \in 0..2}
    \cup {<<"tovar", "id", "1">>, <<"tovar", "id", HugeNumber>>,
          <<"skidka", "15%", "id", "1">>, <<"skidka", "150%", "id", "1">>,
          <<"skidka", "15%", "id", HugeNumber>>}

\* The tool calls a classifier may select: the catalog operations, the
\* helper tools and a tool nobody knows
PlannedCalls ==
    {ToolCall("list_products", EmptyDict),
     ToolCall("get_product", [product_id |-> 1]),
     ToolCall("get_product", [product_id |-> 9]),
     ToolCall("add_product",
              [name |-> <<"Myshka">>, price |-> 0, category |-> "Mebel"]),
     ToolCall("update_product", [product_id |-> 1, price |-> 100]),
     ToolCall("delete_product", [product_id |-> 1]),
     ToolCall("get_statistics", EmptyDict),
     ToolCall("calculate_discount", [percent |-> 15]),
     ToolCall("format_price", [amount |-> 100]),
     ToolCall("send_email", EmptyDict)}

\* What a classifier may do: fail with a message, the empty one included,
\* or select at most MaxCalls tool calls
ClassifierOutcomes ==
    {[exception |-> m] : m \in {<<>>, <<"boom">>}}
    \cup {ParseResult(calls, "custom") :
              calls \in UNION {[1..n -> PlannedCalls] : n \in 0..MaxCalls}}

\* The queries of the requests that run at the same time: one for each
\* intent of the classifier, and one on which it fails
ConcurrentQueries ==
    {<<"pokazhi">>, <<"kategorii", "Mebel">>, <<"statistika">>,
     <<"tovar", "id", "1">>, <<"tovar", "id", HugeNumber>>,
     <<"skidka", "15%", "id", "1">>, <<"dobav", "tovar">>}

\* Direct calls of the MCP tools over the table
DatabaseCalls ==
    {ToolCall("get_product", [product_id |-> i]) : i \in {1, 3, 9}}
    \cup {ToolCall("delete_product", [product_id |-> i]) : i \in {1, 3, 9}}
    \cup {ToolCall("update_product", [product_id |-> i, fields |-> f]) :
              i \in {1, 3, 9},
              f \in {[name |-> <<"Stul">>],
                     [price |-> 4500000, in_stock |-> FALSE],
                     [id |-> 7],
                     [id |-> 7, in_stock |-> TRUE, category |-> "Knigi"],
                     [name |-> <<"Stul">>, price |-> 4500000,
                      category |-> "Knigi", in_stock |-> TRUE]}}

-----------------------------------------------------------------------------
(* The state machine *)

\* One entry point is started on a store as load_products() left it:
\* process_query(query), one call of a helper tool, or a client that calls
\* the MCP tools one after the other.
Init ==
    /\ file \in {None, Some(SeedProducts)}
    /\ products = load_products(file)
    /\ first = None
    /\ rows = SeedProducts
    /\ llm = MockLLM
    /\ suspended = <<>>
    /\ parse_result = None
    /\ tool_results = EmptyResults
    /\ response = NoText
    /\ tools_used = <<>>
    /\ error = None
    /\ ret = None
    /\ \/ pc = "parse" /\ query \in Queries /\ call = None
       \/ pc = "call" /\ query = <<>> /\ call \in {Some(c) : c \in HelperCalls}
       \/ pc = "idle" /\ query = <<>> /\ call = None

\* Mutant of ToolNames: the names in reverse order
ToolNamesReversed(tool_calls) ==
    [i \in 1..Len(tool_calls) |->
        tool_calls[Len(tool_calls) + 1 - i].tool_name]

\* [tc.tool_name for tc in parse_result.tool_calls]
ToolNames(tool_calls) ==
    [i \in 1..Len(tool_calls) |-> tool_calls[i].tool_name]

_parse_request ==
    /\ pc = "parse"
    /\ LET r == llm_parse(llm, query) IN
       IF "exception" \in DOMAIN r
       THEN /\ error' = Some(r.exception)
            /\ UNCHANGED <<parse_result, tools_used>>
       ELSE /\ parse_result' = Some(r)
            /\ tools_used' = ToolNames(r.tool_calls)
            /\ UNCHANGED error
    /\ pc' = "execute"
    /\ UNCHANGED <<products, file, first, rows, llm, suspended, query, tool_results,
                   response, call, ret>>

_execute_tools ==
    /\ pc = "execute"
    /\ IF Truthy(error)
       THEN /\ pc' = "format"
            /\ UNCHANGED <<products, file, tool_results, error>>
       ELSE IF parse_result = None
       THEN /\ error' = Some(<<"No parse result">>)
            /\ pc' = "format"
            /\ UNCHANGED <<products, file, tool_results>>
       ELSE \E env \in Outcomes(parse_result[1].tool_calls) :
                LET st == RunToolCalls(
                              [tool_results |-> EmptyResults,
                               products |-> products,
                               file |-> file,
                               result |-> EmptyDict,
                               raised |-> FALSE],
                              parse_result[1].tool_calls, env)
                IN  /\ products' = st.products
                    /\ file' = st.file
                    /\ IF st.raised
                       THEN pc' = "raised" /\ UNCHANGED tool_results
                       ELSE pc' = "format" /\ tool_results' = st.tool_results
                    /\ UNCHANGED error
    /\ UNCHANGED <<first, rows, llm, suspended, query, parse_result, response, tools_used,
                   call, ret>>

\* Mutant of _format_response: a request that ended in an error is sent
\* back to parse_request
_format_responseRetry ==
    /\ pc = "format"
    /\ response' =
           IF Truthy(error) THEN [error |-> error[1]]
           ELSE IF tool_results.keys = <<>>
           THEN [error |-> <<"Ne udalos' vypolnit' zapros">>]
           ELSE FormatItems(tool_results.keys, tool_results.vals, EmptyDict)
    /\ pc' = IF Truthy(error) THEN "parse" ELSE "done"
    /\ UNCHANGED <<products, file, first, rows, llm, suspended, query, parse_result,
                   tool_results, tools_used, error, call, ret>>

_format_response ==
    /\ pc = "format"
    /\ response' =
           IF Truthy(error) THEN [error |-> error[1]]
           ELSE IF tool_results.keys = <<>>
           THEN [error |-> <<"Ne udalos' vypolnit' zapros">>]
           ELSE FormatItems(tool_results.keys, tool_results.vals, EmptyDict)
    /\ pc' = "done"
    /\ UNCHANGED <<products, file, first, rows, llm, suspended, query, parse_result,
                   tool_results, tools_used, error, call, ret>>

\* A helper tool is called once with the arguments of call.
CallHelper ==
    /\ pc = "call"
    /\ LET c == call[1] IN
       \E tieUp1, tieUp2 \in BOOLEAN :
           ret' = Return(CASE c.tool_name = "calculate_discount" ->
                                calculate_discount(c.arguments.price,
                                    c.arguments.percent, tieUp1, tieUp2)
                         [] c.tool_name = "format_product_list" ->
                                format_product_list(c.arguments.products))
    /\ pc' = "returned"
    /\ UNCHANGED <<products, file, first, rows, llm, suspended, call,
                   request>>

\* A client calls an MCP tool.  The store takes products while it holds
\* fewer than MaxProducts.
CallTool ==
    /\ pc = "idle"
    /\ \E c \in StoreCalls :
       \E env \in Outcomes(<<c>>) :
           LET before == [products |-> products, file |-> file,
                          result |-> EmptyDict, raised |-> FALSE]
               st == IF c.tool_name = "reset_products"
                     THEN [before EXCEPT !.products = reset_products(file),
                                         !.result = None]
                     ELSE _call_mcp_tool(before, c.tool_name, c.arguments,
                                         env)
           IN  /\ c.tool_name = "add_product" => Len(products) < MaxProducts
               /\ call' = Some(c)
               /\ ret' = IF st.raised THEN Raised ELSE Return(st.result)
               /\ products' = st.products
               /\ file' = st.file
    /\ UNCHANGED <<first, rows, llm, suspended, pc, request>>

\* process_query is called once more with the query of the request that
\* has returned: a new initial_state, the store as the first call left it.
Repeat ==
    /\ pc = "done"
    /\ first = None
    /\ first' = Some([response |-> response, tools_used |-> tools_used,
                      products |-> products])
    /\ parse_result' = None
    /\ tool_results' = EmptyResults
    /\ response' = NoText
    /\ tools_used' = <<>>
    /\ error' = None
    /\ pc' = "parse"
    /\ UNCHANGED <<products, file, rows, llm, suspended, query, call, ret>>

Next ==
    \/ _parse_request
    \/ _execute_tools
    \/ _format_response
    \/ CallHelper
    \/ CallTool

Spec == Init /\ [][Next]_vars

\* The RequestState of the process_query call that runs, and where it is
Running ==
    [pc |-> pc, query |-> query, parse_result |-> parse_result,
     tool_results |-> tool_results, response |-> response,
     tools_used |-> tools_used, error |-> error]

\* initial_state of process_query(q)
InitialState(q) ==
    [pc |-> "parse", query |-> q, parse_result |-> None,
     tool_results |-> EmptyResults, response |-> NoText,
     tools_used |-> <<>>, error |-> None]

\* Mutant of Switch: tool_results is one mapping of the agent, which every
\* request reads and writes
SwitchSharedResults ==
    \E i \in 1..Len(suspended) :
        /\ suspended[i].pc \in {"parse", "execute", "format"}
        /\ pc' = suspended[i].pc
        /\ query' = suspended[i].query
        /\ parse_result' = suspended[i].parse_result
        /\ response' = suspended[i].response
        /\ tools_used' = suspended[i].tools_used
        /\ error' = suspended[i].error
        /\ suspended' = [suspended EXCEPT ![i] = Running]
        /\ UNCHANGED <<products, file, first, rows, llm, tool_results, call,
                       ret>>

\* Between two nodes the call that runs is put aside and one that waits goes
\* on, with the state it was called with or its last node returned.
Switch ==
    \E i \in 1..Len(suspended) :
        /\ suspended[i].pc \in {"parse", "execute", "format"}
        /\ pc' = suspended[i].pc
        /\ query' = suspended[i].query
        /\ parse_result' = suspended[i].parse_result
        /\ tool_results' = suspended[i].tool_results
        /\ response' = suspended[i].response
        /\ tools_used' = suspended[i].tools_used
        /\ error' = suspended[i].error
        /\ suspended' = [suspended EXCEPT ![i] = Running]
        /\ UNCHANGED <<products, file, first, rows, llm, call, ret>>

\* At most MaxRequests calls of process_query on the one agent of get_agent()
InitConcurrent ==
    /\ file \in {None, Some(SeedProducts)}
    /\ products = load_products(file)
    /\ first = None
    /\ rows = SeedProducts
    /\ llm = MockLLM
    /\ query \in ConcurrentQueries
    /\ suspended \in UNION {[1..n -> {InitialState(q) : q \in ConcurrentQueries}] :
                                n \in 1..(MaxRequests - 1)}
    /\ pc = "parse"
    /\ parse_result = None
    /\ tool_results = EmptyResults
    /\ response = NoText
    /\ tools_used = <<>>
    /\ error = None
    /\ call = None
    /\ ret = None

NextConcurrent ==
    _parse_request \/ _execute_tools \/ _format_response \/ Switch

SpecConcurrent == InitConcurrent /\ [][NextConcurrent]_vars

\* A client calls the MCP tools over the table, seeded by init_db().
InitDatabase ==
    /\ rows = SeedProducts
    /\ llm = MockLLM
    /\ suspended = <<>>
    /\ file = None
    /\ products = load_products(file)
    /\ first = None
    /\ pc = "db"
    /\ query = <<>>
    /\ parse_result = None
    /\ tool_results = EmptyResults
    /\ response = NoText
    /\ tools_used = <<>>
    /\ error = None
    /\ call = None
    /\ ret = None

CallDatabase ==
    /\ pc = "db"
    /\ \E c \in DatabaseCalls :
           LET r == CASE c.tool_name = "get_product" ->
                             server_get_product(rows, c.arguments)
                      [] c.tool_name = "update_product" ->
                             server_update_product(rows, c.arguments)
                      [] c.tool_name = "delete_product" ->
                             server_delete_product(rows, c.arguments)
           IN  /\ call' = Some(c)
               /\ ret' = Return(r.result)
               /\ rows' = r.table
    /\ UNCHANGED <<products, file, first, llm, suspended, pc, request>>

NextDatabase == CallDatabase

SpecDatabase == InitDatabase /\ [][NextDatabase]_vars

\* Requests whose query is sent a second time
InitRepeat == Init /\ pc = "parse"

NextRepeat ==
    \/ _parse_request
    \/ _execute_tools
    \/ _format_response
    \/ Repeat

SpecRepeat == InitRepeat /\ [][NextRepeat]_vars

\* graph.invoke(initial_state) runs the nodes along the edges of the compiled
\* graph, each node to its end, until END.
NextStages == _parse_request \/ _execute_tools \/ _format_response

Fairness ==
    /\ WF_vars(_parse_request)
    /\ WF_vars(_execute_tools)
    /\ WF_vars(_format_response)

\* One request, to MockLLM or to a classifier with a given outcome
InitNodes ==
    /\ file \in {None, Some(SeedProducts)}
    /\ products = load_products(file)
    /\ first = None
    /\ rows = SeedProducts
    /\ suspended = <<>>
    /\ \/ llm = MockLLM /\ query \in NodeQueries
       \/ llm \in {StubLLM(o) : o \in ClassifierOutcomes} /\ query = <<"tovar">>
    /\ pc = "parse"
    /\ parse_result = None
    /\ tool_results = EmptyResults
    /\ response = NoText
    /\ tools_used = <<>>
    /\ error = None
    /\ call = None
    /\ ret = None

SpecNodes == InitNodes /\ [][NextStages]_vars /\ Fairness

-----------------------------------------------------------------------------
(* Vocabulary of the properties *)

\* The first rule of the claimed order whose pattern matches the query,
\* "default" when none does.
FirstRule(q) ==
    LET s == Lower(q) IN
    IF Matches("add_product", s) THEN "add_product"
    ELSE IF Matches("statistics", s) THEN "statistics"
    ELSE IF Matches("discount", s) THEN "discount"
    ELSE IF Matches("get_product_with_id", s) THEN "get_product_with_id"
    ELSE IF Matches("get_product_simple", s) THEN "get_product_simple"
    ELSE IF Matches("list_with_category", s) THEN "list_with_category"
    ELSE IF Matches("category", s) THEN "category"
    ELSE IF Matches("list_all", s) THEN "list_all"
    ELSE "default"

\* process_query has returned {response, tools_used}
Returned == pc = "done"

\* Parse is over
Parsed == pc \in {"execute", "format", "done", "raised"}

\* The classifier raised instead of returning a ParseResult
ClassifierFailed == Parsed /\ parse_result = None

HasId(ps, id) == \E i \in 1..Len(ps) : ps[i].id = id

PriceFields ==
    {"original_price", "discount_percent", "discount_amount", "final_price"}

ProductKeys == {"id", "name", "price", "category", "in_stock"}

\* A direct call of the tool has returned
Called(tool_name) ==
    /\ call # None
    /\ call[1].tool_name = tool_name
    /\ Len(ret) = 2

\* What the classifier selected for the query: the calls of its ParseResult,
\* none when it raised.
Selected(q) ==
    LET r == parse(q) IN
    IF "exception" \in DOMAIN r THEN <<>> ELSE r.tool_calls

\* Some selected call asks for a product the store does not hold
AsksMissingProduct ==
    LET selected == Selected(query) IN
    \E i \in 1..Len(selected) :
        /\ selected[i].tool_name = "get_product"
        /\ ~HasId(products, selected[i].arguments.product_id)

\* Some selected call asks for a discount whose percent is out of range
AsksBadPercent ==
    LET selected == Selected(query) IN
    \E i \in 1..Len(selected) :
        /\ selected[i].tool_name = "calculate_discount"
        /\ \/ selected[i].arguments.percent < 0
           \/ selected[i].arguments.percent > 100

-----------------------------------------------------------------------------
(* C1 *)

\* C1: the tools_used that process_query returns is the sequence of the
\* tool names of the calls the classifier selected for the query, in
\* selection order, whatever Execute recorded for them.
C1_ToolsUsedAreTheSelectedCalls ==
    Returned =>
        LET selected == Selected(query) IN
        /\ Len(tools_used) = Len(selected)
        /\ \A i \in 1..Len(tools_used) :
               tools_used[i] = selected[i].tool_name

\* Two calls were selected, the product was not found and the discount step
\* recorded an error object.
C1_Witness ==
    /\ Returned
    /\ tools_used = <<"get_product", "calculate_discount">>
    /\ AsksMissingProduct
    /\ "error" \in DOMAIN response.discount

-----------------------------------------------------------------------------
(* C2 *)

\* C2 as stated: no exception leaves process_query, whatever fails.
C2_NeverRaises == pc # "raised"

\* C2 amended: a failure of the classifier or of a tool (product not found,
\* percent out of range, no product for the discount) never raises: the
\* caller gets a mapping response and the tool names, with the failure as an
\* error value in response.  Only an exception of the store's add_product
\* (the data file cannot be written) leaves process_query.
C2_SoftFailuresAreReturned ==
    /\ pc = "raised" => ToolNames(Selected(query)) = <<"add_product">>
    /\ (Returned /\ ClassifierFailed) =>
           /\ error # None
           /\ response = [error |-> error[1]]
    /\ (Returned /\ AsksMissingProduct) =>
           /\ "error" \in DOMAIN response
           /\ "product" \notin DOMAIN response
    /\ (Returned /\ "calculate_discount" \in Range(tools_used)
          /\ (AsksBadPercent \/ AsksMissingProduct)) =>
           /\ "discount" \in DOMAIN response
           /\ "error" \in DOMAIN response.discount
    /\ Returned =>
           /\ DOMAIN response # {}
           /\ DOMAIN response \subseteq
                  {"error", "products", "product", "statistics",
                   "added_product", "discount"}

\* The classifier raised and the caller got the message as response.error.
C2_Witness ==
    /\ Returned
    /\ ClassifierFailed
    /\ response = [error |-> IntLimitMessage]

-----------------------------------------------------------------------------
(* C3 *)

NoRuleMatches(q) ==
    LET s == Lower(q) IN
    \A rule \in Range(patterns) : ~Matches(rule, s)

\* C3: for a query that matches none of the rules the classifier returns
\* exactly one call, list_products without arguments, and process_query
\* returns tools_used = [list_products].
C3_DefaultIsListAll ==
    (Parsed /\ NoRuleMatches(query)) =>
        /\ parse_result # None
        /\ Len(parse_result[1].tool_calls) = 1
        /\ parse_result[1].tool_calls[1].tool_name = "list_products"
        /\ DOMAIN parse_result[1].tool_calls[1].arguments = {}
        /\ tools_used = <<"list_products">>

\* A query of several words, none of them started a rule, was answered.
C3_Witness ==
    /\ Returned
    /\ Len(query) >= 2
    /\ NoRuleMatches(query)
    /\ tools_used = <<"list_products">>
    /\ "products" \in DOMAIN response

-----------------------------------------------------------------------------
(* C4 *)

\* What the first matching rule of the claimed order produces for the query
ExpectedByPriority(q) ==
    LET rule == FirstRule(q) IN
    IF rule = "default" THEN DefaultParseResult
    ELSE Handler(rule, Lower(q), q)

MatchesAddAndAnother(q) ==
    /\ Matches("add_product", Lower(q))
    /\ \E rule \in {"statistics", "list_with_category", "category", "list_all"} :
           Matches(rule, Lower(q))

\* C4: the classifier is first-match-wins over the order add-product,
\* statistics, discount, get-by-id (with verb), get-by-id (simple),
\* list-with-category, bare category, list-all: what parse yields is what
\* the first matching rule of that order produces, so a query that matches
\* the add rule and also a statistics or list rule yields exactly one
\* add_product call.
C4_FirstMatchWins ==
    Parsed =>
        /\ LET expected == ExpectedByPriority(query) IN
           IF "exception" \in DOMAIN expected
           THEN /\ parse_result = None
                /\ error = Some(expected.exception)
           ELSE parse_result = Some(expected)
        /\ MatchesAddAndAnother(query) =>
               /\ parse_result # None
               /\ Len(parse_result[1].tool_calls) = 1
               /\ parse_result[1].tool_calls[1].tool_name = "add_product"

\* A query matched the add rule and the statistics rule, and was parsed.
C4_Witness ==
    /\ Parsed
    /\ Matches("add_product", Lower(query))
    /\ Matches("statistics", Lower(query))
    /\ tools_used = <<"add_product">>

-----------------------------------------------------------------------------
(* C5 *)

\* C5: a discount query (the discount rule is the first that matches) always
\* gives tools_used = [get_product, calculate_discount], in that order,
\* whether or not the product exists and the percent is in range.
C5_DiscountUsesBothTools ==
    (Returned /\ FirstRule(query) = "discount") =>
        tools_used = <<"get_product", "calculate_discount">>

-----------------------------------------------------------------------------
(* C6 *)

IsGetQuery(q) ==
    FirstRule(q) \in {"get_product_with_id", "get_product_simple"}

\* The get-product query asks for an id that some product of the store has
\* (an id int() refuses is the id of no product).
AsksExistingProduct ==
    /\ Selected(query) # <<>>
    /\ HasId(products, Selected(query)[1].arguments.product_id)

\* C6: for a get-product query whose id is the id of no product of the
\* store, response has the key error and not the key product; when the id
\* exists, response has the key product, holding that product, and no error.
C6_GetProductOrError ==
    (Returned /\ IsGetQuery(query)) =>
        IF AsksExistingProduct
        THEN /\ DOMAIN response = {"product"}
             /\ response.product \in Range(products)
             /\ response.product.id = Selected(query)[1].arguments.product_id
        ELSE /\ "error" \in DOMAIN response
             /\ "product" \notin DOMAIN response

\* A get-product query asked a store of three products for an id none has.
C6_Witness ==
    /\ Returned
    /\ IsGetQuery(query)
    /\ products # <<>>
    /\ AsksMissingProduct
    /\ "error" \in DOMAIN response

-----------------------------------------------------------------------------
(* C7 *)

\* The arguments of the direct call that has returned
Price == call[1].arguments.price
Percent == call[1].arguments.percent

Abs(n) == IF n < 0 THEN 0 - n ELSE n

\* n hundredths is a hundredth nearest to num / den
IsRounded(n, num, den) == 2 * Abs(n * den - num) <= den

-----------------------------------------------------------------------------
(* C8 *)

\* The products whose category is c when letter case is ignored
InCategory(ps, c) ==
    SelectSeq(ps, LAMBDA p : LowerWord(p.category) = LowerWord(c))

IsCategoryQuery(q) == FirstRule(q) \in {"list_with_category", "category"}

\* C8: category filtering is case-insensitive: list_products(category=c)
\* returns exactly the products of the store whose category equals c when
\* letter case is ignored (an empty list when there is none), and a
\* list-by-category query gets the views of the products of the category it
\* names, whatever the letter case of the name in the query.
C8_CategoryFilterIgnoresCase ==
    /\ (Called("list_products") /\ "category" \in DOMAIN call[1].arguments) =>
           ret[2] = InCategory(products, call[1].arguments.category)
    /\ (Returned /\ IsCategoryQuery(query)) =>
           /\ Selected(query) = Selected(Lower(query))
           /\ "category" \in DOMAIN Selected(query)[1].arguments =>
                  response =
                      [products |-> format_product_list(InCategory(products,
                           Selected(query)[1].arguments.category))]

-----------------------------------------------------------------------------
(* C9 *)

IsListAllQuery(q) == FirstRule(q) \in {"list_all", "default"}

\* views is the list of the views of the products ps: one entry for each
\* product, in the order of ps, with exactly the keys id, name, price,
\* category, in_stock and the product's values, in_stock false when the
\* product has none.
IsViewOf(views, ps) ==
    /\ Len(views) = Len(ps)
    /\ \A i \in 1..Len(ps) :
           /\ DOMAIN views[i] = ProductKeys
           /\ views[i].id = ps[i].id
           /\ views[i].name = ps[i].name
           /\ views[i].price = ps[i].price
           /\ views[i].category = ps[i].category
           /\ views[i].in_stock = ("in_stock" \in DOMAIN ps[i] /\ ps[i].in_stock)

\* C9: for a list-all query response.products has one entry for each product
\* of the store, in store order, each with exactly the keys id, name, price,
\* category, in_stock and the product's values (in_stock false for a product
\* that has no in_stock field, as format_product_list maps it); an empty
\* store gives an empty products list.
C9_ListAllShowsTheStore ==
    /\ (Returned /\ IsListAllQuery(query)) =>
           /\ DOMAIN response = {"products"}
           /\ IsViewOf(response.products, products)
           /\ products = <<>> => response.products = <<>>
    /\ Called("format_product_list") =>
           IsViewOf(ret[2], call[1].arguments.products)

\* A list-all query was answered from the store of three products; the
\* third is shown as out of stock.
C9_Witness ==
    /\ Returned
    /\ FirstRule(query) = "list_all"
    /\ Len(products) = 3
    /\ Len(response.products) = 3
    /\ ~response.products[3].in_stock

-----------------------------------------------------------------------------
(* C10 *)

InStock(ps) == {i \in 1..Len(ps) : ps[i].in_stock}

RECURSIVE SumCounts(_)
SumCounts(counts) ==
    IF DOMAIN counts = {} THEN 0
    ELSE LET c == CHOOSE k \in DOMAIN counts : TRUE
         IN  counts[c] + SumCounts([k \in DOMAIN counts \ {c} |-> counts[k]])

\* stats is what the products ps give
Agrees(stats, ps) ==
    /\ DOMAIN stats =
           {"total_count", "average_price", "in_stock_count", "categories"}
    /\ stats.total_count = Len(ps)
    /\ stats.in_stock_count = Cardinality(InStock(ps))
    /\ DOMAIN stats.categories = {ps[i].category : i \in 1..Len(ps)}
    /\ \A c \in DOMAIN stats.categories :
           stats.categories[c] =
               Cardinality({i \in 1..Len(ps) : ps[i].category = c})
    /\ SumCounts(stats.categories) = stats.total_count
    /\ IF ps = <<>>
       THEN stats.average_price = 0
       ELSE IsRounded(stats.average_price, SumPrices(ps), Len(ps))

\* C10: after any sequence of add_product operations get_statistics agrees
\* with the store: total_count is the number of products, in_stock_count the
\* number of products in stock, categories maps each category present to
\* its number of products (the counts sum to total_count) and average_price
\* is sum(prices) / count rounded to 2 decimals; for an empty store the
\* counts and the average are 0 and categories is empty.  The same holds
\* for response.statistics of a statistics query.
C10_StatisticsAgreeWithStore ==
    /\ Called("get_statistics") =>
           /\ Agrees(ret[2], products)
           /\ products = <<>> =>
                  ret[2] = [total_count |-> 0, average_price |-> 0,
                            in_stock_count |-> 0, categories |-> EmptyDict]
    /\ (Returned /\ FirstRule(query) = "statistics") =>
           /\ DOMAIN response = {"statistics"}
           /\ Agrees(response.statistics, products)

\* get_statistics was called after products were added, and the average had
\* to be rounded.
C10_Witness ==
    /\ Called("get_statistics")
    /\ Len(products) = 3
    /\ products[1].id = 1 /\ products[1].name = <<"Myshka">>
    /\ SumPrices(products) % 3 = 2
    /\ ret[2].total_count = 3
    /\ ret[2].average_price = SumPrices(products) \div 3 + 1

-----------------------------------------------------------------------------
(* C11 *)

IsReadOnlyQuery(q) == FirstRule(q) # "add_product"

\* The second process_query of the same query has returned
ReturnedAgain == Returned /\ first # None

\* C11: a read-only query (list, list by category, get product, statistics,
\* discount) sent twice through process_query, the store not changed in
\* between, gets the same result twice: the same response and the same
\* tools_used.
C11_ReadOnlyQueryIsIdempotent ==
    (ReturnedAgain /\ IsReadOnlyQuery(query)) =>
        /\ response = first[1].response
        /\ tools_used = first[1].tools_used

\* A discount query was answered twice on the store of three products, with
\* a computed discount.
C11_Witness ==
    /\ ReturnedAgain
    /\ FirstRule(query) = "discount"
    /\ Len(products) = 3
    /\ "discount" \in DOMAIN response
    /\ "final_price" \in DOMAIN response.discount
    /\ response = first[1].response

-----------------------------------------------------------------------------
(* C12 *)

\* C12: reset_products puts the store back to its initial data: after any
\* sequence of add_product calls and then reset_products the store holds
\* exactly the three seed products, and none of the products added.
C12_ResetRestoresTheSeed ==
    Called("reset_products") =>
        /\ products = SeedProducts
        /\ Len(list_products(products, EmptyDict)) = 3

-----------------------------------------------------------------------------
(* C13 *)

DistinctIds(ps) ==
    \A i, j \in 1..Len(ps) : ps[i].id = ps[j].id => i = j

\* The step is a direct call of add_product
AddProductCalled ==
    /\ pc = "idle"
    /\ call' # None
    /\ call'[1].tool_name = "add_product"

\* C13: add_product(name, price, category, in_stock) grows the store by
\* exactly one product, which carries the given name, price and category,
\* in_stock as given or true when it is omitted, and an id that no product
\* of the store had; it is the product returned; the products that were in
\* the store are still there, unchanged and in their order; the ids of the
\* store are pairwise distinct in every state.
C13_AddGrowsTheStoreByOne ==
    /\ []DistinctIds(products)
    /\ [][AddProductCalled =>
            LET arguments == call'[1].arguments
                added == products'[Len(products')]
            IN  /\ Len(products') = Len(products) + 1
                /\ SubSeq(products', 1, Len(products)) = products
                /\ added.name = arguments.name
                /\ added.price = arguments.price
                /\ added.category = arguments.category
                /\ added.in_stock = ("in_stock" \in DOMAIN arguments
                                        => arguments.in_stock)
                /\ ~HasId(products, added.id)
                /\ ret' # Raised => ret'[2] = added]_vars

\* add_product was called without in_stock on the store of three products
\* and returned the fourth, in stock, with the id 4.
C13_Witness ==
    /\ Called("add_product")
    /\ "in_stock" \notin DOMAIN call[1].arguments
    /\ Len(products) = 4
    /\ ret[2] = products[4]
    /\ ret[2].id = 4
    /\ ret[2].in_stock

-----------------------------------------------------------------------------
(* C14 *)

\* The step is a call of the tool on the table
DatabaseCalled(tool_name) ==
    /\ pc = "db"
    /\ call' # None
    /\ call'[1].tool_name = tool_name

\* The rows other than the row of the id are as they were
OtherRowsUnchanged(product_id) ==
    \A i \in 1..Len(rows) :
        rows[i].id # product_id => rows'[i] = rows[i]

-----------------------------------------------------------------------------
(* C15 *)

-----------------------------------------------------------------------------
(* C16 *)

\* C16 as stated: every request runs parse, execute and format once each
\* in this order and is then done; no stage is skipped or entered again.
C16_ThreeStagesThenDone ==
    [][/\ pc = "parse" => pc' = "execute"
       /\ pc = "execute" => pc' = "format"
       /\ pc = "format" => pc' = "done"
       /\ pc \notin {"parse", "execute", "format"} => pc' = pc]_vars

\* C16 amended: a request runs parse, then execute, then format, each once,
\* and is then done, whether or not an error was set; only when add_product
\* raises in execute is format skipped and the request ends with the
\* exception.  No stage is entered again, and every request ends.
C16_StagesInOrderUnlessRaised ==
    /\ [][/\ pc = "parse" => pc' = "execute"
          /\ pc = "execute" => pc' \in {"format", "raised"}
          /\ (pc = "execute" /\ pc' = "raised") =>
                 /\ ~Truthy(error)
                 /\ "add_product" \in Range(tools_used)
          /\ pc = "format" => pc' = "done"
          /\ pc \notin {"parse", "execute", "format"} => pc' = pc]_vars
    /\ (pc = "parse") ~> (pc \in {"done", "raised"})

\* A request whose classifier failed went through the stages and is done,
\* with no tool executed.
C16_Witness ==
    /\ pc = "done"
    /\ error # None
    /\ tool_results = EmptyResults
    /\ "error" \in DOMAIN response

-----------------------------------------------------------------------------
(* C17 *)

\* What the classifier of the request does with its query
Classified == llm_parse(llm, query)

\* C17: when the classifier fails in parse with the message m (the empty
\* text included), error is set to m; execute then invokes no tool and no
\* store operation, leaves tool_results empty and error as it is; and format
\* gives the response {error: m}.
C17_ClassifierFailureIsReported ==
    /\ []("exception" \in DOMAIN Classified =>
             /\ pc # "raised"
             /\ pc \in {"execute", "format", "done"} =>
                    /\ error = Some(Classified.exception)
                    /\ tool_results = EmptyResults
             /\ pc = "done" => response = [error |-> Classified.exception])
    /\ [][("exception" \in DOMAIN Classified /\ pc = "execute") =>
             UNCHANGED <<products, file, rows, tool_results, error>>]_vars

-----------------------------------------------------------------------------
(* C18 *)

\* The tool calls the classifier selected
Planned == IF parse_result = None THEN <<>> ELSE parse_result[1].tool_calls

UnknownTool == "send_email"

UnknownToolError == [error |-> <<"Unknown tool:", UnknownTool>>]

\* The call at position i of the selected calls is of the unknown tool
UnknownAt(i) == i \in 1..Len(Planned) /\ Planned[i].tool_name = UnknownTool

\* The call at position j is the last call of its tool and no add_product
\* follows it: the store is as the call saw it
LastOfItsTool(j) ==
    \A k \in (j + 1)..Len(Planned) :
        Planned[k].tool_name \notin {Planned[j].tool_name, "add_product"}

\* C18: a selected call of an unknown tool raises nothing and stores an
\* error object naming the tool under the tool's name; the calls after it
\* are executed and recorded (the last call of a store operation after it
\* holds what the store gives), and format reports the error object under the tool's own name,
\* next to what the other calls gave.
C18_UnknownToolDoesNotAbort ==
    (\E i \in 1..Len(Planned) : UnknownAt(i)) =>
        /\ pc = "raised" => "add_product" \in Range(ToolNames(Planned))
        /\ pc \in {"format", "done"} =>
               /\ UnknownTool \in Range(tool_results.keys)
               /\ tool_results.vals[UnknownTool] = UnknownToolError
               /\ \A j \in 1..Len(Planned) :
                      /\ Planned[j].tool_name \in Range(tool_results.keys)
                      /\ (\E i \in 1..(j - 1) : UnknownAt(i))
                         /\ LastOfItsTool(j)
                         => CASE Planned[j].tool_name = "get_product" ->
                                     tool_results.vals["get_product"] =
                                         get_product(products,
                                                     Planned[j].arguments)
                              [] Planned[j].tool_name = "list_products" ->
                                     tool_results.vals["list_products"] =
                                         list_products(products,
                                                       Planned[j].arguments)
                              [] Planned[j].tool_name = "add_product" ->
                                     tool_results.vals["add_product"] =
                                         products[Len(products)]
                              [] OTHER -> TRUE
        /\ pc = "done" =>
               /\ UnknownTool \in DOMAIN response
               /\ response[UnknownTool] = UnknownToolError
               /\ "get_statistics" \in Range(ToolNames(Planned))
                      => "statistics" \in DOMAIN response
               /\ "list_products" \in Range(ToolNames(Planned))
                      => "products" \in DOMAIN response
               /\ "add_product" \in Range(ToolNames(Planned))
                      => "added_product" \in DOMAIN response

\* The unknown tool was selected before get_product: the response has the
\* error object under send_email and the product.
C18_Witness ==
    /\ pc = "done"
    /\ tools_used = <<UnknownTool, "get_product">>
    /\ response[UnknownTool] = UnknownToolError
    /\ "product" \in DOMAIN response
    /\ response.product.id = 1

-----------------------------------------------------------------------------
(* C19 *)

\* C19: a selected call of one of the six catalog operations (list, get,
\* add, update, delete, statistics) is delegated to the store and the
\* store's result is recorded under the operation's name; none of the six
\* is recorded as an unknown tool.
C19_CatalogOperationsAreDelegated ==
    pc \in {"format", "done"} =>
        \A j \in 1..Len(Planned) :
            LET tool_name == Planned[j].tool_name
                arguments == Planned[j].arguments
            IN  (tool_name \in {"list_products", "get_product", "add_product",
                                "update_product", "delete_product",
                                "get_statistics"}
                 /\ LastOfItsTool(j)) =>
                    /\ tool_name \in Range(tool_results.keys)
                    /\ CASE tool_name = "list_products" ->
                                tool_results.vals[tool_name] =
                                    list_products(products, arguments)
                         [] tool_name = "get_product" ->
                                tool_results.vals[tool_name] =
                                    get_product(products, arguments)
                         [] tool_name = "add_product" ->
                                tool_results.vals[tool_name] =
                                    products[Len(products)]
                         [] tool_name = "get_statistics" ->
                                \E tieUp \in BOOLEAN :
                                    tool_results.vals[tool_name] =
                                        get_statistics(products, tieUp)
                         [] OTHER ->
                                tool_results.vals[tool_name] #
                                    [error |-> <<"Unknown tool:", tool_name>>]

-----------------------------------------------------------------------------
(* C20 *)

\* The positions of the selected calls of the tool
CallsOf(tool_name) ==
    {j \in 1..Len(Planned) : Planned[j].tool_name = tool_name}

DiscountError == [error |-> <<"Product not found for discount calculation">>]

\* C20: when calculate_discount is executed and no get_product before it
\* gave a product (none was selected, or the id is not in the store), the
\* error object is recorded under calculate_discount, nothing is raised and
\* the response has the error object under discount; when the get_product
\* before it gave a product, the discount is the one of exactly that
\* product's price (and carries the product's name).  Only add_product can
\* raise in the stage; where a later get_product replaced the product in
\* tool_results, the product is looked up in the store, which is as it was
\* when no add_product was selected.
C20_DiscountFailsSoft ==
    CallsOf("calculate_discount") # {} =>
        LET j == Max(CallsOf("calculate_discount"))
            before == {i \in CallsOf("get_product") : i < j}
            after == {i \in CallsOf("get_product") : i > j}
            \* what the last get_product before the discount step gave
            product == IF before = {} THEN EmptyDict
                       ELSE IF after = {}
                       THEN tool_results.vals["get_product"]
                       ELSE get_product(products,
                                        Planned[Max(before)].arguments)
            discount == tool_results.vals["calculate_discount"]
        IN  /\ pc = "raised" => CallsOf("add_product") # {}
            /\ (pc \in {"format", "done"}
                 /\ (after = {} \/ CallsOf("add_product") = {})) =>
                   /\ "calculate_discount" \in Range(tool_results.keys)
                   /\ IF "price" \in DOMAIN product
                      THEN /\ discount.product_name = product.name
                           /\ \E tieUp1, tieUp2 \in BOOLEAN :
                                  LET amounts == calculate_discount(
                                          product.price,
                                          Planned[j].arguments.percent,
                                          tieUp1, tieUp2)
                                  IN  \A k \in DOMAIN amounts :
                                          /\ k \in DOMAIN discount
                                          /\ discount[k] = amounts[k]
                           /\ "original_price" \in DOMAIN discount
                                  => discount.original_price = product.price
                      ELSE discount = DiscountError
            /\ pc = "done" =>
                   /\ "discount" \in DOMAIN response
                   /\ response.discount = discount

\* calculate_discount was selected alone: the response has the error object
\* under discount.
C20_Witness ==
    /\ pc = "done"
    /\ tools_used = <<"calculate_discount">>
    /\ response = [discount |-> DiscountError]

-----------------------------------------------------------------------------
(* C21 *)

\* The requests of the calls of process_query, the one that runs first
Requests == <<Running>> \o suspended

\* The request is where, and holds what, process_query of its query alone
\* on the store would have it hold
AsAlone(r) ==
    LET classified == parse(r.query)
        failed == "exception" \in DOMAIN classified
        calls == IF failed THEN <<>> ELSE classified.tool_calls
    IN  /\ r.pc \in {"parse", "execute", "format", "done"}
        /\ r.pc = "parse" => r = InitialState(r.query)
        /\ r.pc # "parse" =>
               /\ r.parse_result = IF failed THEN None ELSE Some(classified)
               /\ r.tools_used = ToolNames(calls)
               /\ r.error = IF failed THEN Some(classified.exception) ELSE None
        /\ r.pc \in {"parse", "execute"} => r.tool_results = EmptyResults
        /\ r.pc \in {"parse", "execute", "format"} => r.response = NoText
        /\ r.pc \in {"format", "done"} =>
               \E env \in Outcomes(calls) :
                   LET alone == IF failed THEN EmptyResults
                                ELSE RunToolCalls(
                                         [tool_results |-> EmptyResults,
                                          products |-> products,
                                          file |-> file,
                                          result |-> EmptyDict,
                                          raised |-> FALSE],
                                         calls, env).tool_results
                   IN  /\ r.tool_results = alone
                       /\ r.pc = "done" =>
                              r.response =
                                  IF failed
                                  THEN [error |-> classified.exception]
                                  ELSE FormatItems(alone.keys, alone.vals,
                                                   EmptyDict)

\* C21: when calls of process_query run at the same time, their stages in
\* any order, and none of their queries is an add-product query, every call
\* has its own request state: at every stage the state holds the call's own
\* query and what the query alone on the same store gives, and so do the
\* response and tools_used it returns.
C21_ConcurrentRequestsAreIndependent ==
    (\A i \in 1..Len(Requests) :
         FirstRule(Requests[i].query) # "add_product")
    => \A i \in 1..Len(Requests) : AsAlone(Requests[i])

\* The statistics request and the discount request both returned, the
\* discount request after the other one had executed its tools.
C21_Witness ==
    /\ pc = "done"
    /\ query = <<"skidka", "15%", "id", "1">>
    /\ "discount" \in DOMAIN response
    /\ "final_price" \in DOMAIN response.discount
    /\ Len(suspended) = 1
    /\ suspended[1].pc = "done"
    /\ suspended[1].query = <<"statistika">>
    /\ "statistics" \in DOMAIN suspended[1].response

-----------------------------------------------------------------------------
(* C22 *)

\* The tools the rules of the classifier select
ClassifierTools ==
    {"list_products", "get_product", "add_product", "get_statistics",
     "calculate_discount"}

\* C22: process_query changes the store only for an add-product query.  For
\* every other query (list, list by category, get product, statistics,
\* discount, none of the rules) no node changes the store or its data file:
\* every product keeps every field, also when the discount step puts
\* product_name into its result.  The classifier selects no update_product
\* and no delete_product call.
C22_OnlyAddChangesTheStore ==
    /\ [](LET selected == Selected(query) IN
           \A i \in 1..Len(selected) :
               /\ selected[i].tool_name \in ClassifierTools
               /\ selected[i].tool_name = "add_product"
                      => FirstRule(query) = "add_product")
    /\ [][(pc \in {"parse", "execute", "format"}
           /\ FirstRule(query) # "add_product")
          => /\ products' = products
             /\ file' = file
             /\ rows' = rows]_vars

\* The discount of the first product was returned with the product's name,
\* and the product in the store has its five fields.
C22_Witness ==
    /\ pc = "done"
    /\ FirstRule(query) = "discount"
    /\ "discount" \in DOMAIN response
    /\ "product_name" \in DOMAIN response.discount
    /\ response.discount.product_name = products[1].name
    /\ products = SeedProducts
    /\ DOMAIN products[1] = ProductKeys

====
